---- MODULE Spec2Model ----
(***************************************************************************)
(* Homework Copilot backend: the state reducer (state_reducer.py), the     *)
(* policy compiler (policy_compiler.py), the LLM orchestrator              *)
(* (llm/orchestrator.py, llm/registry.py) and the two request handlers     *)
(* that drive them (routers/questions.py).                                 *)
(*                                                                         *)
(* Numbers.  mastery and confidence are Python floats in [0.0, 1.0].  They *)
(* are modelled in hundredths (0.5 is 50), and a product of two such       *)
(* values is rounded to the nearest hundredth, the way the float unit      *)
(* rounds every operation to the nearest representable value.  Every       *)
(* constant of state_reducer.py is a whole number of hundredths.  The      *)
(* confidence values the float arithmetic reaches from 0.5 by +0.1 / -0.1  *)
(* steps lie within 2e-16 of a multiple of 0.1, and those near 0.3 are     *)
(* 0.30000000000000004 and 0.30000000000000016, both not below the float   *)
(* 0.3: the comparison confidence < 0.3 gives the same answer in           *)
(* hundredths.                                                             *)
(***************************************************************************)
EXTENDS Integers, Sequences, FiniteSets, TLC

VARIABLES
    child_topic_state,   \* committed rows of table child_topic_state
    questions,           \* committed rows of table questions
    feedback_events,     \* committed rows of table feedback_events
    uploads,             \* image files present in settings.upload_dir
    provider_instances,  \* registry._provider_instances: provider type -> instance
    req,                 \* the requests in flight, one per worker slot
    nreq,                \* number of requests accepted so far (source of fresh ids)
    applied,             \* per feedback event id: reducer transitions committed for it
    direct_call,         \* a function called on its own: its name and arguments
    direct_result,       \* what that call returned
    confused_run         \* a run of STILL_CONFUSED events: the topic state it
                         \* started from and the events processed so far

dbVars == <<child_topic_state, questions, feedback_events>>
directVars == <<direct_call, direct_result, confused_run>>
vars == <<child_topic_state, questions, feedback_events, uploads,
          provider_instances, req, nreq, applied,
          direct_call, direct_result, confused_run>>

(***************************************************************************)
(* Bounds of the model.                                                    *)
(***************************************************************************)
NumProcs == 2        \* requests in flight at the same time
MaxRequests == 3     \* requests accepted in one behaviour

Procs == 1..NumProcs

(***************************************************************************)
(* state_reducer.py: constants, in hundredths.                             *)
(***************************************************************************)
EMA_FACTOR == 20
MASTERY_CHANGE == 5
CONFIDENCE_CHANGE == 10
min_val == 0
max_val == 100

\* A product of two values in hundredths, rounded to the nearest hundredth.
Mul(a, b) == (a * b + 50) \div 100

Max2(a, b) == IF a >= b THEN a ELSE b
Min2(a, b) == IF a <= b THEN a ELSE b

clamp_no_upper(value) == Max2(min_val, value)

clamp(value) == Max2(min_val, Min2(max_val, value))

(***************************************************************************)
(* models/topic_state.py, models/feedback.py: the enums.                   *)
(***************************************************************************)
AbstractionLevel == {"more_concrete", "balanced", "more_abstract"}
HintDepth == {"light_hints", "moderate", "step_by_step"}
FeedbackEventType ==
    {"TOO_SIMPLE", "JUST_RIGHT", "TOO_ADVANCED", "UNDERSTOOD", "STILL_CONFUSED"}

\* list.index(current): Python's 0-based position of current in levels.
IndexOf(levels, current) ==
    (CHOOSE i \in 1..Len(levels) : levels[i] = current) - 1

\* levels[i] with Python's 0-based (non-negative) index.
At(levels, i) == levels[i + 1]

abstraction_levels == <<"more_concrete", "balanced", "more_abstract">>
hint_levels == <<"light_hints", "moderate", "step_by_step">>

shift_abstraction_to_end(current, direction) ==
    IF direction = "concrete" THEN At(abstraction_levels, 0)
    ELSE IF direction = "abstract"
         THEN At(abstraction_levels, Len(abstraction_levels) - 1)
         ELSE current

shift_abstraction_swapped(current, direction) ==
    LET levels == abstraction_levels
        current_idx == IndexOf(levels, current)
    IN  IF direction = "abstract" /\ current_idx > 0
        THEN At(levels, current_idx - 1)
        ELSE IF direction = "concrete" /\ current_idx < Len(levels) - 1
             THEN At(levels, current_idx + 1)
             ELSE current

shift_abstraction(current, direction) ==
    LET levels == abstraction_levels
        current_idx == IndexOf(levels, current)
    IN  IF direction = "concrete" /\ current_idx > 0
        THEN At(levels, current_idx - 1)
        ELSE IF direction = "abstract" /\ current_idx < Len(levels) - 1
             THEN At(levels, current_idx + 1)
             ELSE current

shift_hint_depth_swapped(current, direction) ==
    LET levels == hint_levels
        current_idx == IndexOf(levels, current)
    IN  IF direction = "less" /\ current_idx < Len(levels) - 1
        THEN At(levels, current_idx + 1)
        ELSE IF direction = "more" /\ current_idx > 0
             THEN At(levels, current_idx - 1)
             ELSE current

shift_hint_depth(current, direction) ==
    LET levels == hint_levels
        current_idx == IndexOf(levels, current)
    IN  IF direction = "more" /\ current_idx < Len(levels) - 1
        THEN At(levels, current_idx + 1)
        ELSE IF direction = "less" /\ current_idx > 0
             THEN At(levels, current_idx - 1)
             ELSE current

(***************************************************************************)
(* process_feedback, lines 120-176: the update rules, applied to the       *)
(* fields of the session's ChildTopicState object.                         *)
(***************************************************************************)
Fields == {"mastery", "confidence", "preferred_abstraction", "preferred_hint_depth"}

apply_update_rules_understood_keeps_confidence(topic_state, event_type) ==
    CASE event_type = "TOO_ADVANCED" ->
           [topic_state EXCEPT
              !.preferred_hint_depth = shift_hint_depth(@, "more"),
              !.preferred_abstraction = shift_abstraction(@, "concrete"),
              !.mastery = clamp(Mul(@, 100 - EMA_FACTOR)
                                + Mul(@ - MASTERY_CHANGE, EMA_FACTOR))]
      [] event_type = "TOO_SIMPLE" ->
           [topic_state EXCEPT
              !.preferred_hint_depth = shift_hint_depth(@, "less"),
              !.preferred_abstraction = shift_abstraction(@, "abstract"),
              !.mastery = clamp(Mul(@, 100 - EMA_FACTOR)
                                + Mul(@ + MASTERY_CHANGE, EMA_FACTOR))]
      [] event_type = "JUST_RIGHT" ->
           [topic_state EXCEPT !.confidence = clamp(@ + CONFIDENCE_CHANGE)]
      [] event_type = "UNDERSTOOD" ->
           [topic_state EXCEPT
              !.mastery = clamp(Mul(@, 100 - EMA_FACTOR) + Mul(100, EMA_FACTOR))]
      [] event_type = "STILL_CONFUSED" ->
           LET lowered == [topic_state EXCEPT
                             !.confidence = clamp(@ - CONFIDENCE_CHANGE)]
           IN  IF lowered.confidence < 30
               THEN [lowered EXCEPT
                       !.preferred_hint_depth = shift_hint_depth(@, "more")]
               ELSE lowered
      [] OTHER -> topic_state

apply_update_rules_confused_at_threshold(topic_state, event_type) ==
    CASE event_type = "TOO_ADVANCED" ->
           [topic_state EXCEPT
              !.preferred_hint_depth = shift_hint_depth(@, "more"),
              !.preferred_abstraction = shift_abstraction(@, "concrete"),
              !.mastery = clamp(Mul(@, 100 - EMA_FACTOR)
                                + Mul(@ - MASTERY_CHANGE, EMA_FACTOR))]
      [] event_type = "TOO_SIMPLE" ->
           [topic_state EXCEPT
              !.preferred_hint_depth = shift_hint_depth(@, "less"),
              !.preferred_abstraction = shift_abstraction(@, "abstract"),
              !.mastery = clamp(Mul(@, 100 - EMA_FACTOR)
                                + Mul(@ + MASTERY_CHANGE, EMA_FACTOR))]
      [] event_type = "JUST_RIGHT" ->
           [topic_state EXCEPT !.confidence = clamp(@ + CONFIDENCE_CHANGE)]
      [] event_type = "UNDERSTOOD" ->
           [topic_state EXCEPT
              !.mastery = clamp(Mul(@, 100 - EMA_FACTOR) + Mul(100, EMA_FACTOR)),
              !.confidence = clamp(@ + CONFIDENCE_CHANGE)]
      [] event_type = "STILL_CONFUSED" ->
           LET lowered == [topic_state EXCEPT
                             !.confidence = clamp(@ - CONFIDENCE_CHANGE)]
           IN  IF lowered.confidence <= 30
               THEN [lowered EXCEPT
                       !.preferred_hint_depth = shift_hint_depth(@, "more")]
               ELSE lowered
      [] OTHER -> topic_state

apply_update_rules_just_right_raises_mastery(topic_state, event_type) ==
    CASE event_type = "TOO_ADVANCED" ->
           [topic_state EXCEPT
              !.preferred_hint_depth = shift_hint_depth(@, "more"),
              !.preferred_abstraction = shift_abstraction(@, "concrete"),
              !.mastery = clamp(Mul(@, 100 - EMA_FACTOR)
                                + Mul(@ - MASTERY_CHANGE, EMA_FACTOR))]
      [] event_type = "TOO_SIMPLE" ->
           [topic_state EXCEPT
              !.preferred_hint_depth = shift_hint_depth(@, "less"),
              !.preferred_abstraction = shift_abstraction(@, "abstract"),
              !.mastery = clamp(Mul(@, 100 - EMA_FACTOR)
                                + Mul(@ + MASTERY_CHANGE, EMA_FACTOR))]
      [] event_type = "JUST_RIGHT" ->
           [topic_state EXCEPT
              !.mastery = clamp(Mul(@, 100 - EMA_FACTOR) + Mul(100, EMA_FACTOR)),
              !.confidence = clamp(@ + CONFIDENCE_CHANGE)]
      [] event_type = "UNDERSTOOD" ->
           [topic_state EXCEPT
              !.mastery = clamp(Mul(@, 100 - EMA_FACTOR) + Mul(100, EMA_FACTOR)),
              !.confidence = clamp(@ + CONFIDENCE_CHANGE)]
      [] event_type = "STILL_CONFUSED" ->
           LET lowered == [topic_state EXCEPT
                             !.confidence = clamp(@ - CONFIDENCE_CHANGE)]
           IN  IF lowered.confidence < 30
               THEN [lowered EXCEPT
                       !.preferred_hint_depth = shift_hint_depth(@, "more")]
               ELSE lowered
      [] OTHER -> topic_state

apply_update_rules(topic_state, event_type) ==
    CASE event_type = "TOO_ADVANCED" ->
           [topic_state EXCEPT
              !.preferred_hint_depth = shift_hint_depth(@, "more"),
              !.preferred_abstraction = shift_abstraction(@, "concrete"),
              !.mastery = clamp(Mul(@, 100 - EMA_FACTOR)
                                + Mul(@ - MASTERY_CHANGE, EMA_FACTOR))]
      [] event_type = "TOO_SIMPLE" ->
           [topic_state EXCEPT
              !.preferred_hint_depth = shift_hint_depth(@, "less"),
              !.preferred_abstraction = shift_abstraction(@, "abstract"),
              !.mastery = clamp(Mul(@, 100 - EMA_FACTOR)
                                + Mul(@ + MASTERY_CHANGE, EMA_FACTOR))]
      [] event_type = "JUST_RIGHT" ->
           [topic_state EXCEPT !.confidence = clamp(@ + CONFIDENCE_CHANGE)]
      [] event_type = "UNDERSTOOD" ->
           [topic_state EXCEPT
              !.mastery = clamp(Mul(@, 100 - EMA_FACTOR) + Mul(100, EMA_FACTOR)),
              !.confidence = clamp(@ + CONFIDENCE_CHANGE)]
      [] event_type = "STILL_CONFUSED" ->
           LET lowered == [topic_state EXCEPT
                             !.confidence = clamp(@ - CONFIDENCE_CHANGE)]
           IN  IF lowered.confidence < 30
               THEN [lowered EXCEPT
                       !.preferred_hint_depth = shift_hint_depth(@, "more")]
               ELSE lowered
      [] OTHER -> topic_state

(***************************************************************************)
(* The store.  One learner (child profile) owns every row.  A topic key    *)
(* "subject.category" is the pair of its dot-separated segments.           *)
(***************************************************************************)
Topics == {<<"math", "area">>, <<"english", "verbs">>}

\* The topic of the runs that follow a single topic state.
ReducerTopic == <<"math", "area">>

\* feedback.topic_key.split(".")[0]
SubjectOf(topic_key) == topic_key[1]

NoRow == [id |-> 0]

new_topic_state_zero(id, subject, topic_key) ==
    [id |-> id, subject |-> subject, topic_key |-> topic_key,
     mastery |-> 0, confidence |-> 0,
     preferred_abstraction |-> "balanced",
     preferred_hint_depth |-> "moderate"]

\* ChildTopicState(...) as get_or_create_topic_state constructs it, lines 88-96.
new_topic_state(id, subject, topic_key) ==
    [id |-> id, subject |-> subject, topic_key |-> topic_key,
     mastery |-> 50, confidence |-> 50,
     preferred_abstraction |-> "balanced",
     preferred_hint_depth |-> "moderate"]

\* select(ChildTopicState).where(topic_key == ...), lines 79-84.
select_topic_state(rows, topic_key) == {r \in rows : r.topic_key = topic_key}

uq_child_topic_no_check(rows, topic_key) == TRUE

\* UniqueConstraint("child_profile_id", "topic_key"): may a row with this key
\* be inserted next to the committed rows?
uq_child_topic(rows, topic_key) == select_topic_state(rows, topic_key) = {}

\* The UPDATE a commit issues for a loaded object: the columns whose value
\* differs from the loaded one are set, in one statement, on the row with
\* the object's primary key.
update_first_column_only(rows, loaded, obj) ==
    LET changed == {f \in Fields : obj[f] /= loaded[f]}
        first == IF "preferred_hint_depth" \in changed
                 THEN {"preferred_hint_depth"}
                 ELSE changed
    IN  {IF r.id = obj.id
         THEN [f \in DOMAIN r |-> IF f \in first THEN obj[f] ELSE r[f]]
         ELSE r : r \in rows}

update_changed_columns(rows, loaded, obj) ==
    LET changed == {f \in Fields : obj[f] /= loaded[f]}
    IN  {IF r.id = obj.id
         THEN [f \in DOMAIN r |-> IF f \in changed THEN obj[f] ELSE r[f]]
         ELSE r : r \in rows}

(***************************************************************************)
(* policy_compiler.py.  The compiled prompt is a fixed text with six       *)
(* interpolated parts; it is modelled as the record of those parts.        *)
(* session_hint_stage is the third parameter, 1 when not given.            *)
(***************************************************************************)
GlobalState ==
    [grade_alignment |-> "year_5", curriculum |-> "NSW", language |-> "zh_en",
     default_explanation_style |-> "balanced", no_direct_answer |-> TRUE]

get_grade_description(grade) ==
    IF grade = "year_5" THEN "Year 5 (ages 9-10)" ELSE grade

get_abstraction_instruction(level) ==
    IF level = "more_concrete" THEN "Use concrete examples"
    ELSE IF level = "more_abstract" THEN "You may use mathematical notation"
    ELSE "Balance concrete examples with conceptual explanations"

get_explanation_depth_instruction(depth) ==
    IF depth = "light_hints" THEN "Keep explanations concise"
    ELSE IF depth = "step_by_step" THEN "Provide detailed explanations"
    ELSE "Provide clear explanations with moderate detail"

compile_policy_inclusive_bands(global_state, topic_state, session_hint_stage) ==
    LET given == topic_state /= NoRow
        abstraction == IF given THEN topic_state.preferred_abstraction ELSE "balanced"
        hint_depth == IF given THEN topic_state.preferred_hint_depth ELSE "moderate"
        mastery == IF given THEN topic_state.mastery ELSE 50
        lang == global_state.language
    IN  [grade_desc |-> get_grade_description(global_state.grade_alignment),
         curriculum |-> global_state.curriculum,
         language_instruction |->
            IF lang = "zh_en" THEN "Respond in both English and Chinese"
            ELSE IF lang = "zh" THEN "Respond entirely in Chinese"
            ELSE "Respond in English",
         abstraction_instruction |-> get_abstraction_instruction(abstraction),
         explanation_instruction |-> get_explanation_depth_instruction(hint_depth),
         mastery_instruction |->
            IF mastery <= 30 THEN "Be extra patient"
            ELSE IF mastery >= 70 THEN "You can move more quickly"
            ELSE ""]

compile_policy_style_default(global_state, topic_state, session_hint_stage) ==
    LET given == topic_state /= NoRow
        abstraction == IF given THEN topic_state.preferred_abstraction ELSE global_state.default_explanation_style
        hint_depth == IF given THEN topic_state.preferred_hint_depth ELSE "moderate"
        mastery == IF given THEN topic_state.mastery ELSE 50
        lang == global_state.language
    IN  [grade_desc |-> get_grade_description(global_state.grade_alignment),
         curriculum |-> global_state.curriculum,
         language_instruction |->
            IF lang = "zh_en" THEN "Respond in both English and Chinese"
            ELSE IF lang = "zh" THEN "Respond entirely in Chinese"
            ELSE "Respond in English",
         abstraction_instruction |-> get_abstraction_instruction(abstraction),
         explanation_instruction |-> get_explanation_depth_instruction(hint_depth),
         mastery_instruction |->
            IF mastery < 30 THEN "Be extra patient"
            ELSE IF mastery > 70 THEN "You can move more quickly"
            ELSE ""]

compile_policy(global_state, topic_state, session_hint_stage) ==
    LET given == topic_state /= NoRow
        abstraction == IF given THEN topic_state.preferred_abstraction ELSE "balanced"
        hint_depth == IF given THEN topic_state.preferred_hint_depth ELSE "moderate"
        mastery == IF given THEN topic_state.mastery ELSE 50
        lang == global_state.language
    IN  [grade_desc |-> get_grade_description(global_state.grade_alignment),
         curriculum |-> global_state.curriculum,
         language_instruction |->
            IF lang = "zh_en" THEN "Respond in both English and Chinese"
            ELSE IF lang = "zh" THEN "Respond entirely in Chinese"
            ELSE "Respond in English",
         abstraction_instruction |-> get_abstraction_instruction(abstraction),
         explanation_instruction |-> get_explanation_depth_instruction(hint_depth),
         mastery_instruction |->
            IF mastery < 30 THEN "Be extra patient"
            ELSE IF mastery > 70 THEN "You can move more quickly"
            ELSE ""]

\* The topic state analyze_homework hands to compile_policy, line 182: None.
policy_topic_state(rows) == NoRow

(***************************************************************************)
(* llm/registry.py.                                                        *)
(***************************************************************************)
MODEL_REGISTRY ==
    [m \in {"gpt-5.2", "gpt-5-mini", "gpt-4o", "gpt-4o-mini"} |->
       IF m \in {"gpt-5.2", "gpt-5-mini"}
       THEN [provider |-> "openai_responses", api_model |-> m]
       ELSE [provider |-> "openai_chat", api_model |-> m]]

DEFAULT_MODEL_ID == "gpt-4o"

\* Python's `a or b` on strings and None; None and "" are both falsy.
None == ""
OrElse(a, b) == IF a /= None THEN a ELSE b

(***************************************************************************)
(* llm/orchestrator.py.  A raw response text is classified by what         *)
(* _extract_json, json.loads and the AnalysisResponse constructor make of   *)
(* it:                                                                     *)
(*   valid           a JSON object that satisfies the schema               *)
(*   schema_invalid  a JSON object with missing or mistyped fields         *)
(*   non_object      JSON that is no object: an array, a number, null      *)
(*   not_json        no JSON at all                                        *)
(***************************************************************************)
Analyses ==
    {[subject |-> "maths", topic |-> <<"math", "area">>],
     [subject |-> "english", topic |-> <<"english", "verbs">>]}

NoAnalysis == [subject |-> None]

RawTexts ==
    {[kind |-> "valid", analysis |-> a] : a \in Analyses}
    \cup {[kind |-> k, analysis |-> NoAnalysis] :
            k \in {"schema_invalid", "non_object", "not_json"}}

NoText == [kind |-> None, analysis |-> NoAnalysis]

\* Lines 59-63 and 120-122: json.loads(_extract_json(content)) followed by
\* the AnalysisResponse constructor on the unpacked data.  exc is the
\* exception raised, None if none.  Unpacking a value that is no mapping
\* raises TypeError; pydantic's
\* ValidationError is a ValueError.
parse_analysis(content) ==
    CASE content.kind = "valid" -> [exc |-> None, analysis |-> content.analysis]
      [] content.kind \in {"not_json", "empty"} ->
           [exc |-> "JSONDecodeError", analysis |-> NoAnalysis]
      [] content.kind = "schema_invalid" -> [exc |-> "ValidationError", analysis |-> NoAnalysis]
      [] OTHER -> [exc |-> "TypeError", analysis |-> NoAnalysis]

\* except (json.JSONDecodeError, ValueError), line 64.
caught_by_repair(exc) == exc \in {"JSONDecodeError", "ValidationError", "ValueError"}

\* The content of a backend completion: a text of RawTexts, or the empty
\* string (or None).
EmptyText == [kind |-> "empty", analysis |-> NoAnalysis]

Completions == RawTexts \cup {EmptyText}

\* What a provider adapter does with the backend's answer (openai_chat.py
\* 68-71 and 90-93, openai_responses.py 65-68 and 86-89): `if not content`
\* raises ValueError("Empty response ..."), otherwise the text is returned.
adapter_return(content) ==
    IF content = EmptyText
    THEN [raised |-> "EmptyResponse", text |-> NoText]
    ELSE [raised |-> None, text |-> content]

\* What an upstream call gives back: the adapter's result, or the exception
\* the API client raised.
ProviderReplies ==
    {adapter_return(c) : c \in Completions}
    \cup {[raised |-> "APIError", text |-> NoText]}

(***************************************************************************)
(* Requests.                                                               *)
(***************************************************************************)
NoPolicy == [grade_desc |-> None]

IdleRequest ==
    [kind |-> "none", pc |-> "idle", id |-> 0, status |-> 0, error |-> None,
     \* analyze_homework
     model_id |-> None, system_prompt |-> NoPolicy, rows_at_compile |-> {},
     calls |-> <<>>, first_error |-> None,
     analysis |-> NoAnalysis,
     \* submit_feedback
     question_id |-> 0, event_type |-> None, topic_key |-> <<>>,
     \* the request's database session
     topic_state |-> NoRow, loaded |-> NoRow, pending_insert |-> FALSE]

\* A new request is served by the first worker slot that has none in flight.
Free(p) ==
    /\ req[p].pc \in {"idle", "done"}
    /\ \A q \in Procs : q < p => req[q].pc \notin {"idle", "done"}

\* raise HTTPException(status) / return the response: the request is over and
\* its session is closed; what the session had not committed is rolled back.
Respond(r, status, error) ==
    [r EXCEPT !.pc = "done", !.status = status, !.error = error,
              !.id = 0, !.model_id = None, !.system_prompt = NoPolicy,
              !.rows_at_compile = {},
              !.question_id = 0, !.event_type = None, !.topic_key = <<>>,
              !.topic_state = NoRow, !.loaded = NoRow,
              !.pending_insert = FALSE]

(***************************************************************************)
(* LLMOrchestrator.analyze_homework_image and _retry_with_json_fix, as     *)
(* transformers of the request that runs them.  pc "orch_ok" and           *)
(* "orch_raised" are the two ways the orchestrator hands back to           *)
(* analyze_homework; a pc ending in _call is an upstream call in flight.   *)
(***************************************************************************)
ProviderTypes == {"openai_responses", "openai_chat"}

\* provider.analyze_image(...) / provider.chat(...): one upstream call.
\* reply is what the call gave back, NoReply while it is in flight.
NoReply == [raised |-> None, text |-> NoText]

Call(op, provider, api_model, system_prompt, messages, temperature) ==
    [op |-> op, provider |-> provider, model |-> api_model,
     system_prompt |-> system_prompt, messages |-> messages,
     temperature |-> temperature,
     reply |-> NoReply]

\* compile_analysis_prompt(), questions.py 183: the fixed user prompt.
user_prompt == "analysis_prompt"

\* analyze_image sends the user prompt (with the image) as its one user turn.
image_messages == <<[role |-> "user", content |-> user_prompt]>>

\* previous_response[:500], orchestrator.py 101: the first chars characters
\* of a text, all of it if it is shorter.
EXCERPT_CHARS == 500
slice(text, chars) == [first |-> chars, of |-> text]

\* Lines 98-103: the text of the new user turn.
fix_prompt(error, previous_response) ==
    [error |-> error, previous |-> slice(previous_response, EXCERPT_CHARS)]

\* Lines 105-109: the message history of the repair call.
fix_messages(previous_response, error) ==
    <<[role |-> "user", content |-> user_prompt],
      [role |-> "assistant", content |-> previous_response],
      [role |-> "user", content |-> fix_prompt(error, previous_response)]>>

retry_with_json_fix_without_history(r, previous_response, error) ==
    [r EXCEPT !.pc = "repair_call",
              !.first_error = error,
              !.calls = Append(@, Call("chat", r.calls[1].provider,
                                       r.calls[1].model,
                                       r.calls[1].system_prompt,
                                       <<[role |-> "user",
                                          content |-> fix_prompt(error, previous_response)]>>,
                                       10))]

\* The await on the latest upstream call is over.
Replied(r, reply) == [r EXCEPT !.calls[Len(r.calls)].reply = reply]

orch_raise(r, exc) == [r EXCEPT !.pc = "orch_raised", !.error = exc]

orch_return(r, analysis) == [r EXCEPT !.pc = "orch_ok", !.analysis = analysis]

\* _retry_with_json_fix, lines 98-117: build the repair messages and call
\* provider.chat on the provider and model of the first call.
retry_with_json_fix(r, previous_response, error) ==
    [r EXCEPT !.pc = "repair_call",
              !.first_error = error,
              !.calls = Append(@, Call("chat", r.calls[1].provider,
                                       r.calls[1].model,
                                       r.calls[1].system_prompt,
                                       fix_messages(previous_response, error),
                                       10))]

orchestrator_call_lookup_after_call(r) ==
    LET chosen == IF r.model_id \in DOMAIN MODEL_REGISTRY
                  THEN r.model_id ELSE DEFAULT_MODEL_ID
        called == [r EXCEPT !.calls = <<Call("analyze_image",
                                             MODEL_REGISTRY[chosen].provider,
                                             MODEL_REGISTRY[chosen].api_model,
                                             r.system_prompt, image_messages, 30)>>]
    IN  IF r.model_id \notin DOMAIN MODEL_REGISTRY
        THEN orch_raise(called, "ValueError: Unknown model")
        ELSE [called EXCEPT !.pc = "initial_call"]

\* Lines 42-53: resolve the provider and issue the analyze_image call.
orchestrator_call(r) ==
    IF r.model_id \notin DOMAIN MODEL_REGISTRY
    THEN orch_raise(r, "ValueError: Unknown model")
    ELSE [r EXCEPT !.pc = "initial_call",
                   !.calls = <<Call("analyze_image",
                                    MODEL_REGISTRY[r.model_id].provider,
                                    MODEL_REGISTRY[r.model_id].api_model,
                                    r.system_prompt, image_messages, 30)>>]

after_initial_call_inside_try(r, reply) ==
    IF reply.raised = "EmptyResponse"
    THEN retry_with_json_fix(r, reply.text, reply.raised)
    ELSE IF reply.raised /= None THEN orch_raise(r, reply.raised)
    ELSE LET parsed == parse_analysis(reply.text)
         IN  IF parsed.exc = None THEN orch_return(r, parsed.analysis)
             ELSE IF caught_by_repair(parsed.exc)
                  THEN retry_with_json_fix(r, reply.text, parsed.exc)
                  ELSE orch_raise(r, parsed.exc)

\* Lines 46-68, from the moment analyze_image returns or raises.  The await
\* of analyze_image stands before the try: what it raises propagates.
after_initial_call(r, reply) ==
    IF reply.raised /= None THEN orch_raise(r, reply.raised)
    ELSE LET parsed == parse_analysis(reply.text)
         IN  IF parsed.exc = None THEN orch_return(r, parsed.analysis)
             ELSE IF caught_by_repair(parsed.exc)
                  THEN retry_with_json_fix(r, reply.text, parsed.exc)
                  ELSE orch_raise(r, parsed.exc)

\* Lines 111-122, from the moment chat returns or raises.
after_repair_call_first_text(r, reply) ==
    IF reply.raised /= None THEN orch_raise(r, reply.raised)
    ELSE LET parsed == parse_analysis(r.calls[1].reply.text)
         IN  IF parsed.exc = None THEN orch_return(r, parsed.analysis)
             ELSE orch_raise(r, parsed.exc)

after_repair_call_again(r, reply) ==
    IF reply.raised /= None THEN orch_raise(r, reply.raised)
    ELSE LET parsed == parse_analysis(reply.text)
         IN  IF parsed.exc = None THEN orch_return(r, parsed.analysis)
             ELSE IF Len(r.calls) < 3
                  THEN retry_with_json_fix(r, reply.text, parsed.exc)
                  ELSE orch_raise(r, parsed.exc)

after_repair_call(r, reply) ==
    IF reply.raised /= None THEN orch_raise(r, reply.raised)
    ELSE LET parsed == parse_analysis(reply.text)
         IN  IF parsed.exc = None THEN orch_return(r, parsed.analysis)
             ELSE orch_raise(r, parsed.exc)

(***************************************************************************)
(* Initial state: an empty database and upload directory, no provider      *)
(* constructed, no request in flight, no function called on its own.       *)
(***************************************************************************)
NoCall == [fn |-> None]
NoRun == [start |-> NoRow, length |-> 0]

Init ==
    /\ child_topic_state = {}
    /\ questions = {}
    /\ feedback_events = {}
    /\ uploads = {}
    /\ provider_instances = [t \in ProviderTypes |-> 0]
    /\ req = [p \in Procs |-> IdleRequest]
    /\ nreq = 0
    /\ applied = [i \in 1..MaxRequests |-> 0]
    /\ direct_call = NoCall
    /\ direct_result = NoCall
    /\ confused_run = NoRun

(***************************************************************************)
(* routers/questions.py: analyze_homework.                                 *)
(***************************************************************************)
get_provider_instances_always_new(instances, provider_type) ==
    [instances EXCEPT ![provider_type] = @ + 1]

\* get_provider, lines 100-104: the lazily created singleton.  The value is
\* the number of times the provider type has been constructed.
get_provider_instances(instances, provider_type) ==
    IF instances[provider_type] = 0
    THEN [instances EXCEPT ![provider_type] = @ + 1]
    ELSE instances

AnalyzeContinue_question_not_committed(p, r) ==
    IF r.pc = "orch_raised"
    THEN /\ req' = [req EXCEPT ![p] = Respond(r, 500, r.error)]
         /\ uploads' = uploads \ {r.id}
         /\ questions' = questions
    ELSE IF r.pc = "orch_ok"
    THEN /\ req' = [req EXCEPT ![p] = [r EXCEPT !.pc = "get_or_create",
                                                !.topic_key = r.analysis.topic]]
         /\ uploads' = uploads
         /\ questions' = questions
    ELSE /\ req' = [req EXCEPT ![p] = r]
         /\ uploads' = uploads
         /\ questions' = questions

AnalyzeContinue_keeps_image(p, r) ==
    IF r.pc = "orch_raised"
    THEN /\ req' = [req EXCEPT ![p] = Respond(r, 500, r.error)]
         /\ uploads' = uploads
         /\ questions' = questions
    ELSE IF r.pc = "orch_ok"
    THEN /\ req' = [req EXCEPT ![p] = [r EXCEPT !.pc = "get_or_create",
                                                !.topic_key = r.analysis.topic]]
         /\ uploads' = uploads
         /\ questions' = questions \cup
                           {[id |-> r.id, topic_key |-> r.analysis.topic]}
    ELSE /\ req' = [req EXCEPT ![p] = r]
         /\ uploads' = uploads
         /\ questions' = questions

\* Lines 194-220, from the moment the orchestrator returns or raises: on an
\* exception the saved image is removed and the request ends with 500; on
\* success the question is committed.
AnalyzeContinue(p, r) ==
    IF r.pc = "orch_raised"
    THEN /\ req' = [req EXCEPT ![p] = Respond(r, 500, r.error)]
         /\ uploads' = uploads \ {r.id}
         /\ questions' = questions
    ELSE IF r.pc = "orch_ok"
    THEN /\ req' = [req EXCEPT ![p] = [r EXCEPT !.pc = "get_or_create",
                                                !.topic_key = r.analysis.topic]]
         /\ uploads' = uploads
         /\ questions' = questions \cup
                           {[id |-> r.id, topic_key |-> r.analysis.topic]}
    ELSE /\ req' = [req EXCEPT ![p] = r]
         /\ uploads' = uploads
         /\ questions' = questions

\* Lines 147-172: a request that fails validation (profile not found or not
\* owned, no global state, not an image, image too large) ends before
\* anything is written.
RejectAnalyze(p) ==
    /\ Free(p)
    /\ nreq < MaxRequests
    /\ nreq' = nreq + 1
    /\ req' = [req EXCEPT ![p] =
                 Respond([IdleRequest EXCEPT !.kind = "analyze", !.id = nreq + 1],
                         400, "HTTPException")]
    /\ UNCHANGED <<dbVars, uploads, provider_instances, applied, directVars>>

\* Lines 174-193: save the image, compile the policy, resolve the model and
\* enter the orchestrator up to its first await, the analyze_image call.
StartAnalyze(p, model, preferred_model) ==
    /\ Free(p)
    /\ nreq < MaxRequests
    /\ nreq' = nreq + 1
    /\ LET resolved_model == OrElse(OrElse(model, preferred_model), None)
           r0 == [IdleRequest EXCEPT
                    !.kind = "analyze", !.id = nreq + 1,
                    !.system_prompt =
                        compile_policy(GlobalState,
                                       policy_topic_state(child_topic_state), 1),
                    !.rows_at_compile = child_topic_state,
                    !.model_id = OrElse(resolved_model, DEFAULT_MODEL_ID)]
           r1 == orchestrator_call(r0)
       IN  /\ provider_instances' =
                IF r1.pc = "initial_call"
                THEN get_provider_instances(provider_instances,
                                            MODEL_REGISTRY[r0.model_id].provider)
                ELSE provider_instances
           /\ IF r1.pc = "initial_call"
              THEN /\ req' = [req EXCEPT ![p] = r1]
                   /\ uploads' = uploads \cup {r0.id}
              ELSE /\ req' = [req EXCEPT ![p] = Respond(r1, 500, r1.error)]
                   /\ uploads' = uploads
    /\ UNCHANGED <<dbVars, applied, directVars>>

\* The analyze_image call completes.
InitialReturn(p, reply) ==
    /\ req[p].pc = "initial_call"
    /\ AnalyzeContinue(p, after_initial_call(Replied(req[p], reply), reply))
    /\ UNCHANGED <<child_topic_state, feedback_events, provider_instances,
                   nreq, applied, directVars>>

\* The repair chat call completes.
RepairReturn(p, reply) ==
    /\ req[p].pc = "repair_call"
    /\ AnalyzeContinue(p, after_repair_call(Replied(req[p], reply), reply))
    /\ UNCHANGED <<child_topic_state, feedback_events, provider_instances,
                   nreq, applied, directVars>>

(***************************************************************************)
(* state_reducer.py: get_or_create_topic_state, called by both handlers,   *)
(* in the two steps its awaits cut it into.                                *)
(***************************************************************************)
\* subject argument: analysis.subject (questions.py 218) or the first
\* segment of the topic key (state_reducer.py 116).
SubjectArg(r) ==
    IF r.kind = "analyze" THEN r.analysis.subject ELSE SubjectOf(r.topic_key)

AfterGetOrCreate(r) == IF r.kind = "feedback" THEN "update" ELSE "respond"

\* Lines 79-97: the select, and the new object if there is no row.
SelectTopicState(p) ==
    /\ req[p].pc = "get_or_create"
    /\ LET r == req[p]
           found == select_topic_state(child_topic_state, r.topic_key)
       IN  req' = [req EXCEPT ![p] =
              IF Cardinality(found) > 1
              THEN Respond(r, 500, "MultipleResultsFound")
              ELSE IF found /= {}
              THEN [r EXCEPT !.pc = AfterGetOrCreate(r),
                             !.topic_state = CHOOSE t \in found : TRUE,
                             !.loaded = CHOOSE t \in found : TRUE]
              ELSE [r EXCEPT !.pc = "flush",
                             !.topic_state =
                                new_topic_state(r.id, SubjectArg(r), r.topic_key)]]
    /\ UNCHANGED <<dbVars, uploads, provider_instances, nreq, applied, directVars>>

\* Line 98: db.flush() sends the INSERT inside the session's transaction.
\* The unique index makes it wait while another transaction holds an
\* uncommitted row with the same key, and fail with IntegrityError when a
\* committed one exists.
FlushTopicState(p) ==
    /\ req[p].pc = "flush"
    /\ \A q \in Procs \ {p} :
          ~(req[q].pending_insert /\ req[q].topic_key = req[p].topic_key)
    /\ LET r == req[p]
       IN  req' = [req EXCEPT ![p] =
              IF uq_child_topic(child_topic_state, r.topic_key)
              THEN [r EXCEPT !.pc = AfterGetOrCreate(r),
                             !.loaded = r.topic_state,
                             !.pending_insert = TRUE]
              ELSE Respond(r, 500, "IntegrityError")]
    /\ UNCHANGED <<dbVars, uploads, provider_instances, nreq, applied, directVars>>

\* The request's session ends (get_db, app/core/database.py): what the
\* handler flushed and did not commit is committed.
get_db_teardown(rows, r) ==
    IF r.pending_insert THEN rows \cup {r.topic_state} ELSE rows

\* Lines 222-275: build and return the response.
RespondAnalyze(p) ==
    /\ req[p].pc = "respond"
    /\ child_topic_state' = get_db_teardown(child_topic_state, req[p])
    /\ req' = [req EXCEPT ![p] = Respond(req[p], 200, None)]
    /\ UNCHANGED <<questions, feedback_events, uploads, provider_instances,
                   nreq, applied, directVars>>

(***************************************************************************)
(* routers/questions.py: submit_feedback, and process_feedback under it.   *)
(***************************************************************************)
\* Lines 348-377: look the question up and commit the feedback event.
StartFeedback(p, question_id, event_type) ==
    /\ Free(p)
    /\ nreq < MaxRequests
    /\ nreq' = nreq + 1
    /\ LET found == {q \in questions : q.id = question_id}
           r0 == [IdleRequest EXCEPT !.kind = "feedback", !.id = nreq + 1,
                                     !.question_id = question_id,
                                     !.event_type = event_type]
       IN  IF found = {}
           THEN /\ req' = [req EXCEPT ![p] = Respond(r0, 404, "HTTPException")]
                /\ feedback_events' = feedback_events
           ELSE LET question == CHOOSE q \in found : TRUE
                IN  /\ req' = [req EXCEPT ![p] =
                                 [r0 EXCEPT !.pc = "get_or_create",
                                            !.topic_key = question.topic_key]]
                    /\ feedback_events' = feedback_events \cup
                          {[id |-> r0.id, question_id |-> question.id,
                            topic_key |-> question.topic_key,
                            event_type |-> event_type]}
    /\ UNCHANGED <<child_topic_state, questions, uploads, provider_instances,
                   applied, directVars>>

\* db.commit() of a session holding the object obj: a flushed INSERT becomes
\* visible with the object's values, a loaded row is UPDATEd.
commit_topic_state(rows, r, obj) ==
    IF r.pending_insert THEN rows \cup {obj}
    ELSE update_changed_columns(rows, r.loaded, obj)

\* process_feedback, lines 120-178: apply the rules to the session's object
\* and commit.  Afterwards loaded is the object as it was before the rules
\* and topic_state the object as they left it.
CommitFeedback(p) ==
    /\ req[p].pc = "update"
    /\ LET r == req[p]
           after == apply_update_rules(r.topic_state, r.event_type)
       IN  /\ child_topic_state' = commit_topic_state(child_topic_state, r, after)
           /\ applied' = [applied EXCEPT ![r.id] = @ + 1]
           /\ req' = [req EXCEPT ![p] = [r EXCEPT !.pc = "refresh",
                                                  !.topic_state = after,
                                                  !.pending_insert = FALSE]]
    /\ UNCHANGED <<questions, feedback_events, uploads, provider_instances, nreq, directVars>>

\* state_reducer.py 179 and questions.py 382-387: refresh the object from
\* its row and return the response.
RespondFeedback(p) ==
    /\ req[p].pc = "refresh"
    /\ LET r == req[p]
       IN  req' = [req EXCEPT ![p] = Respond(r, 200, None)]
    /\ UNCHANGED <<dbVars, uploads, provider_instances, nreq, applied, directVars>>

(***************************************************************************)
(* The system: requests arrive and interleave at their awaits.             *)
(***************************************************************************)
ModelInputs == {None, "no-such-model"}
PreferredModels == {None, "gpt-5-mini"}

\* The steps of the request in slot p, with the provider answering from
\* replies and the client choosing among models and preferred models.
Step(p, models, preferred, replies, events) ==
    \/ RejectAnalyze(p)
    \/ \E m \in models, pm \in preferred : StartAnalyze(p, m, pm)
    \/ \E reply \in replies : InitialReturn(p, reply)
    \/ \E reply \in replies : RepairReturn(p, reply)
    \/ SelectTopicState(p)
    \/ FlushTopicState(p)
    \/ RespondAnalyze(p)
    \/ \E q \in 1..MaxRequests, e \in events : StartFeedback(p, q, e)
    \/ CommitFeedback(p)
    \/ RespondFeedback(p)

\* Concurrent requests.  The provider answers with a valid analysis of the
\* one topic the requests compete for, with text that is no JSON, or fails.
ConcurrentReplies ==
    {rp \in ProviderReplies :
        \/ rp.raised = "APIError"
        \/ rp.raised = None /\ rp.text.kind = "not_json"
        \/ rp.raised = None /\ rp.text.kind = "valid"
                            /\ rp.text.analysis.topic = ReducerTopic}

\* The feedback kinds of concurrent requests: one that moves both ladders
\* and mastery, one that moves mastery and confidence, one that moves
\* confidence alone.
ConcurrentEvents == {"TOO_ADVANCED", "UNDERSTOOD", "STILL_CONFUSED"}

Next ==
    \E p \in Procs : Step(p, {None}, {None}, ConcurrentReplies, ConcurrentEvents)

Spec == Init /\ [][Next]_vars

\* One request at a time, every model choice and every provider answer.
NextSeq == Step(1, ModelInputs, PreferredModels, ProviderReplies, FeedbackEventType)

SpecSeq == Init /\ [][NextSeq]_vars

(***************************************************************************)
(* LLMOrchestrator._extract_json on texts.  A text is a sequence of        *)
(* tokens: "fence" for the three backticks of a code fence, the word      *)
(* "json", a whitespace character " ", the braces "{" and "}", and "x" for *)
(* any other character.                                                    *)
(***************************************************************************)
MaxSegments == 4     \* pieces a text is put together from

Segments ==
    {<<"fence">>, <<"json">>, <<" ">>, <<"x">>, <<"{">>, <<"}">>,
     <<"{", "}">>, <<"{", "x", "}">>}

RECURSIVE TextsOf(_)
TextsOf(n) ==
    IF n = 0 THEN {<<>>}
    ELSE LET shorter == TextsOf(n - 1)
         IN  shorter \cup {t \o g : t \in shorter, g \in Segments}

Texts == TextsOf(MaxSegments)

SetMin(S) == CHOOSE i \in S : \A j \in S : i <= j
SetMax(S) == CHOOSE i \in S : \A j \in S : i >= j

\* str.strip(): the text without its leading and trailing whitespace.
strip(s) ==
    LET solid == {i \in 1..Len(s) : s[i] /= " "}
    IN  IF solid = {} THEN <<>> ELSE SubSeq(s, SetMin(solid), SetMax(solid))

\* re.findall(code_block_pattern, content) from position i on, line 73-74:
\* fence, optional "json", whitespace, the shortest text up to the next
\* fence (the captured group), fence; the search goes on behind the match.
RECURSIVE findall_code_block(_, _)
findall_code_block(content, i) ==
    LET fences == {a \in i..Len(content) : content[a] = "fence"}
        opening == SetMin(fences)
        closing == SetMin(fences \ {opening})
        tagged == IF content[opening + 1] = "json" THEN opening + 2
                  ELSE opening + 1
        body == {g \in tagged..closing : content[g] /= " "}
    IN  IF Cardinality(fences) < 2 THEN <<>>
        ELSE <<SubSeq(content, SetMin(body), closing - 1)>>
             \o findall_code_block(content, closing + 1)

\* re.findall(json_pattern, content) from position i on, lines 79-80: "{",
\* the longest text that still leaves a "}" to end on, "}".
RECURSIVE findall_json(_, _)
findall_json(content, i) ==
    LET closes == {b \in 1..Len(content) : content[b] = "}"}
        opens == {a \in i..Len(content) :
                    content[a] = "{" /\ \E b \in closes : b > a}
    IN  IF opens = {} THEN <<>>
        ELSE <<SubSeq(content, SetMin(opens), SetMax(closes))>>
             \o findall_json(content, SetMax(closes) + 1)

\* max(matches, key=len): the first of the longest matches.
max_by_len(matches) ==
    LET longest == {k \in 1..Len(matches) :
                      \A l \in 1..Len(matches) : Len(matches[l]) <= Len(matches[k])}
    IN  matches[SetMin(longest)]

_extract_json_brace_first(content) ==
    LET blocks == findall_code_block(content, 1)
        objects == findall_json(content, 1)
    IN  IF objects /= <<>> THEN max_by_len(objects)
        ELSE IF blocks /= <<>> THEN strip(blocks[1])
        ELSE strip(content)

_extract_json(content) ==
    LET blocks == findall_code_block(content, 1)
        objects == findall_json(content, 1)
    IN  IF blocks /= <<>> THEN strip(blocks[1])
        ELSE IF objects /= <<>> THEN max_by_len(objects)
        ELSE strip(content)

\* _extract_json called on a text.
ExtractJson(content) ==
    /\ direct_call = NoCall
    /\ direct_call' = [fn |-> "_extract_json", args |-> <<content>>]
    /\ direct_result' = _extract_json(content)
    /\ UNCHANGED <<dbVars, uploads, provider_instances, req, nreq, applied,
                   confused_run>>

NextExtract ==
    /\ direct_call = NoCall
    /\ \E content \in Texts : ExtractJson(content)

SpecExtract == Init /\ [][NextExtract]_vars

(***************************************************************************)
(* compile_policy called on its own, on global states, topic states (or    *)
(* none) and session hint stages.                                          *)
(***************************************************************************)
PolicyGlobalStates ==
    [grade_alignment : {"year_5", "year_9"},
     curriculum : {"NSW", "VIC"},
     language : {"zh_en", "zh", "en"},
     default_explanation_style : {"balanced", "more_concrete"},
     no_direct_answer : BOOLEAN]

PolicyTopicStates ==
    {NoRow} \cup
    [id : {1}, subject : {"math"}, topic_key : {ReducerTopic},
     mastery : {0, 29, 30, 31, 50, 69, 70, 71, 100},
     confidence : {0, 100},
     preferred_abstraction : AbstractionLevel,
     preferred_hint_depth : HintDepth]

SessionHintStages == {1, 2, 3}

CompilePolicy(global_state, topic_state, session_hint_stage) ==
    /\ direct_call = NoCall
    /\ direct_call' = [fn |-> "compile_policy",
                       args |-> <<global_state, topic_state, session_hint_stage>>]
    /\ direct_result' = compile_policy(global_state, topic_state, session_hint_stage)
    /\ UNCHANGED <<dbVars, uploads, provider_instances, req, nreq, applied,
                   confused_run>>

NextPolicy ==
    /\ direct_call = NoCall
    /\ \E g \in PolicyGlobalStates, t \in PolicyTopicStates, st \in SessionHintStages :
          CompilePolicy(g, t, st)

SpecPolicy == Init /\ [][NextPolicy]_vars

(***************************************************************************)
(* Cancellation.  The task that runs analyze_homework is cancelled while   *)
(* it awaits an upstream call: asyncio raises CancelledError at the await. *)
(***************************************************************************)
\* `except Exception` (questions.py 194): asyncio.CancelledError derives
\* from BaseException and is not caught by it.
except_Exception(exc) == exc /= "CancelledError"

CancelAnalyze(p) ==
    /\ req[p].pc \in {"initial_call", "repair_call"}
    /\ LET r == orch_raise(req[p], "CancelledError")
       IN  IF except_Exception(r.error)
           THEN AnalyzeContinue(p, r)
           ELSE /\ req' = [req EXCEPT ![p] = Respond(r, 0, r.error)]
                /\ UNCHANGED <<uploads, questions>>
    /\ UNCHANGED <<child_topic_state, feedback_events, provider_instances,
                   nreq, applied, directVars>>

\* One request at a time, which may be cancelled during its upstream calls.
NextCancel ==
    \/ Step(1, {None}, {None}, ProviderReplies, FeedbackEventType)
    \/ CancelAnalyze(1)

SpecCancel == Init /\ [][NextCancel]_vars

(***************************************************************************)
(* The registry under concurrent analyses: requests for every model        *)
(* choice start while others await their provider, which then fails.       *)
(***************************************************************************)
NextRegistry ==
    \E p \in Procs :
       \/ \E m \in ModelInputs, pm \in PreferredModels : StartAnalyze(p, m, pm)
       \/ InitialReturn(p, [raised |-> "APIError", text |-> NoText])

SpecRegistry == Init /\ [][NextRegistry]_vars

(***************************************************************************)
(* The reducer alone: process_feedback called again and again, each call   *)
(* run to completion before the next, on feedback events of one topic.     *)
(***************************************************************************)
ProcessFeedback(event_type) ==
    LET found == select_topic_state(child_topic_state, ReducerTopic)
        topic_state == IF found = {}
                       THEN new_topic_state(1, SubjectOf(ReducerTopic), ReducerTopic)
                       ELSE CHOOSE t \in found : TRUE
        r == [IdleRequest EXCEPT
                !.kind = "feedback", !.event_type = event_type,
                !.topic_key = ReducerTopic,
                !.topic_state = topic_state, !.loaded = topic_state,
                !.pending_insert = (found = {})]
        after == apply_update_rules(r.topic_state, r.event_type)
    IN  /\ child_topic_state' = commit_topic_state(child_topic_state, r, after)
        /\ req' = [req EXCEPT ![1] = [r EXCEPT !.pc = "refresh",
                                               !.topic_state = after,
                                               !.pending_insert = FALSE]]
        /\ UNCHANGED <<questions, feedback_events, uploads, provider_instances,
                       nreq, applied, directVars>>

NextReducer == \E e \in FeedbackEventType : ProcessFeedback(e)

SpecReducer == Init /\ [][NextReducer]_vars

(***************************************************************************)
(* A run of STILL_CONFUSED events on one topic state, started from any     *)
(* mastery, confidence and pair of preferences; each event is one          *)
(* process_feedback call run to completion.                                *)
(***************************************************************************)
MaxRun == 12         \* STILL_CONFUSED events in one run

RunStarts ==
    [id : {1}, subject : {SubjectOf(ReducerTopic)}, topic_key : {ReducerTopic},
     mastery : {0, 50, 100},
     confidence : 0..100,
     preferred_abstraction : AbstractionLevel,
     preferred_hint_depth : HintDepth]

InitConfused ==
    /\ \E t \in RunStarts :
          /\ child_topic_state = {t}
          /\ confused_run = [start |-> t, length |-> 0]
    /\ questions = {}
    /\ feedback_events = {}
    /\ uploads = {}
    /\ provider_instances = [t \in ProviderTypes |-> 0]
    /\ req = [p \in Procs |-> IdleRequest]
    /\ nreq = 0
    /\ applied = [i \in 1..MaxRequests |-> 0]
    /\ direct_call = NoCall
    /\ direct_result = NoCall

StillConfused ==
    /\ confused_run.length < MaxRun
    /\ LET topic_state == CHOOSE t \in select_topic_state(child_topic_state,
                                                         ReducerTopic) : TRUE
           after == apply_update_rules(topic_state, "STILL_CONFUSED")
       IN  child_topic_state' =
              update_changed_columns(child_topic_state, topic_state, after)
    /\ confused_run' = [confused_run EXCEPT !.length = @ + 1]
    /\ UNCHANGED <<questions, feedback_events, uploads, provider_instances,
                   req, nreq, applied, direct_call, direct_result>>

SpecConfused == InitConfused /\ [][StillConfused]_vars

(***************************************************************************)
(* Properties of the reducer (SpecReducer).  After ProcessFeedback, slot 1 *)
(* holds the application just made: the event, the object before the       *)
(* rules (loaded) and after them (topic_state).                            *)
(***************************************************************************)
ReducerApplied == req[1].kind = "feedback" /\ req[1].pc = "refresh"

\* C1: after any sequence of feedback events applied by process_feedback,
\* mastery and confidence of the stored topic state, and of the object
\* process_feedback returns, are in [0, 1] (0..100 hundredths).
C1_MasteryConfidenceInUnitInterval ==
    /\ \A t \in child_topic_state :
          /\ 0 <= t.mastery /\ t.mastery <= 100
          /\ 0 <= t.confidence /\ t.confidence <= 100
    /\ ReducerApplied =>
          /\ 0 <= req[1].topic_state.mastery /\ req[1].topic_state.mastery <= 100
          /\ 0 <= req[1].topic_state.confidence /\ req[1].topic_state.confidence <= 100

\* TOO_SIMPLE was applied to a state whose mastery was already 1.0 and whose
\* confidence was 0.0: the clamp had to act.
C1_Witness ==
    /\ ReducerApplied
    /\ req[1].event_type = "TOO_SIMPLE"
    /\ req[1].loaded.mastery = 100
    /\ \E t \in child_topic_state : t.mastery = 100 /\ t.confidence = 0

AbstractionRung == [l \in AbstractionLevel |->
                      IF l = "more_concrete" THEN 1 ELSE IF l = "balanced" THEN 2 ELSE 3]
HintRung == [l \in HintDepth |->
               IF l = "light_hints" THEN 1 ELSE IF l = "moderate" THEN 2 ELSE 3]

\* C2: both preferences stay on their three rungs; TOO_ADVANCED moves
\* abstraction one rung down and hint depth one rung up, TOO_SIMPLE the
\* other way, each staying put at the end of its ladder; no event moves a
\* ladder by more than one rung.
C2_LaddersStayOnRungs ==
    /\ \A t \in child_topic_state :
          /\ t.preferred_abstraction \in AbstractionLevel
          /\ t.preferred_hint_depth \in HintDepth
    /\ ReducerApplied =>
          LET a0 == AbstractionRung[req[1].loaded.preferred_abstraction]
              a1 == AbstractionRung[req[1].topic_state.preferred_abstraction]
              h0 == HintRung[req[1].loaded.preferred_hint_depth]
              h1 == HintRung[req[1].topic_state.preferred_hint_depth]
              e == req[1].event_type
          IN  /\ e = "TOO_ADVANCED" =>
                    /\ a1 = (IF a0 = 1 THEN 1 ELSE a0 - 1)
                    /\ h1 = (IF h0 = 3 THEN 3 ELSE h0 + 1)
              /\ e = "TOO_SIMPLE" =>
                    /\ a1 = (IF a0 = 3 THEN 3 ELSE a0 + 1)
                    /\ h1 = (IF h0 = 1 THEN 1 ELSE h0 - 1)
              /\ e \notin {"TOO_ADVANCED", "TOO_SIMPLE"} =>
                    /\ a1 = a0
                    /\ h1 \in {h0, IF h0 = 3 THEN 3 ELSE h0 + 1}

\* A shift was requested at the end of both ladders and left them alone.
C2_Witness ==
    /\ ReducerApplied
    /\ req[1].event_type = "TOO_ADVANCED"
    /\ req[1].loaded.preferred_abstraction = "more_concrete"
    /\ req[1].loaded.preferred_hint_depth = "step_by_step"
    /\ req[1].topic_state.preferred_abstraction = "more_concrete"
    /\ req[1].topic_state.preferred_hint_depth = "step_by_step"

(***************************************************************************)
(* Properties of one analysis (SpecSeq).                                   *)
(***************************************************************************)
IsText(reply) == reply.raised = None /\ reply.text /= NoText

\* C3: an analysis issues at most two upstream calls, an analyze_image call
\* and then a chat call, and the chat call only after analyze_image has
\* returned text.
C3_AtMostTwoUpstreamCalls ==
    \A p \in Procs :
       LET calls == req[p].calls
       IN  /\ Len(calls) <= 2
           /\ Len(calls) >= 1 => calls[1].op = "analyze_image"
           /\ Len(calls) >= 2 => calls[2].op = "chat" /\ IsText(calls[1].reply)

\* An analysis ended after its repair call.
C3_Witness ==
    \E p \in Procs :
       /\ req[p].pc = "done"
       /\ Len(req[p].calls) = 2
       /\ req[p].calls[2].reply /= NoReply

\* C4: when the first response does not parse and the repair response does,
\* the orchestrator returns the analysis of the repair response, and no
\* further call is issued.
C4_RepairResultReturned ==
    \A p \in Procs :
       LET calls == req[p].calls
       IN  (/\ Len(calls) >= 2
            /\ IsText(calls[1].reply) /\ calls[1].reply.text.kind /= "valid"
            /\ IsText(calls[2].reply) /\ calls[2].reply.text.kind = "valid")
           => /\ req[p].analysis = calls[2].reply.text.analysis
              /\ req[p].error = None
              /\ Len(calls) = 2
              /\ req[p].pc \notin {"initial_call", "repair_call"}

\* An analysis answered 200 with the analysis of its repair response.
C4_Witness ==
    \E p \in Procs :
       /\ req[p].pc = "done" /\ req[p].status = 200
       /\ Len(req[p].calls) = 2
       /\ req[p].calls[1].reply.text.kind = "not_json"
       /\ req[p].calls[2].reply.text.kind = "valid"
       /\ req[p].analysis = req[p].calls[2].reply.text.analysis

\* The exception Python raises on a text of the kind.
ParseErrorOf(kind) ==
    IF kind = "not_json" THEN "JSONDecodeError"
    ELSE IF kind = "schema_invalid" THEN "ValidationError"
    ELSE "TypeError"

\* C5: when the repair response does not parse either, the analysis fails
\* with the parse error of the repair response (the last one), after
\* exactly two upstream calls.
C5_GivesUpAfterRepair ==
    \A p \in Procs :
       LET calls == req[p].calls
       IN  (/\ Len(calls) >= 2
            /\ IsText(calls[2].reply) /\ calls[2].reply.text.kind /= "valid")
           => /\ req[p].pc = "done"
              /\ req[p].status = 500
              /\ req[p].error = ParseErrorOf(calls[2].reply.text.kind)
              /\ req[p].analysis = NoAnalysis
              /\ Len(calls) = 2

\* Both responses failed to parse, with different errors, and the analysis
\* failed with the second one.
C5_Witness ==
    \E p \in Procs :
       /\ req[p].pc = "done"
       /\ Len(req[p].calls) = 2
       /\ req[p].calls[1].reply.text.kind = "not_json"
       /\ req[p].calls[2].reply.text.kind = "schema_invalid"
       /\ req[p].first_error = "JSONDecodeError"
       /\ req[p].error = "ValidationError"

\* C6: every first response that is text and does not parse as a
\* StructuredAnalysis (no JSON, an object that fails the schema, or JSON
\* that is no object) is followed by exactly one repair chat call.
C6_EveryMalformedResponseRepaired ==
    \A p \in Procs :
       LET calls == req[p].calls
       IN  (/\ Len(calls) >= 1
            /\ IsText(calls[1].reply)
            /\ calls[1].reply.text.kind \in {"not_json", "schema_invalid", "non_object"})
           => /\ Len(calls) = 2
              /\ calls[2].op = "chat"

(***************************************************************************)
(* Properties of the policy handed to the provider (SpecSeq).              *)
(***************************************************************************)
\* The row of the topic among rows, NoRow if there is none.
TopicStateIn(rows, topic_key) ==
    IF select_topic_state(rows, topic_key) = {} THEN NoRow
    ELSE CHOOSE t \in select_topic_state(rows, topic_key) : TRUE

\* C8: the instructions of an analysis are compiled from the topic state
\* that the store held for the analysed learner-topic pair when the analysis
\* was requested, if it held one.
C8_PolicyFromCurrentTopicState ==
    \A p \in Procs :
       (/\ req[p].kind = "analyze"
        /\ req[p].pc \in {"get_or_create", "flush", "respond"}
        /\ TopicStateIn(req[p].rows_at_compile, req[p].analysis.topic) /= NoRow)
       => req[p].calls[1].system_prompt =
             compile_policy(GlobalState,
                            TopicStateIn(req[p].rows_at_compile,
                                         req[p].analysis.topic), 1)

(***************************************************************************)
(* Properties of concurrent requests (Spec).                               *)
(***************************************************************************)
\* The feedback events of a topic whose reducer transition is committed.
AppliedEvents(topic_key) ==
    {f \in feedback_events : f.topic_key = topic_key /\ applied[f.id] >= 1}

\* The states that applying the events of S one after the other, in any
\* order, can lead to from state s.
RECURSIVE SerialOutcomes(_, _)
SerialOutcomes(S, s) ==
    IF S = {} THEN {s}
    ELSE UNION {SerialOutcomes(S \ {f}, apply_update_rules(s, f.event_type)) : f \in S}

\* C7: the stored topic state is what applying the committed transitions of
\* its feedback events one after the other, in some order, gives: no update
\* is lost, also when two of them were processed concurrently.
C7_NoLostUpdate ==
    \A t \in child_topic_state :
       t \in SerialOutcomes(AppliedEvents(t.topic_key),
                            new_topic_state(t.id, t.subject, t.topic_key))

\* C9: every stored feedback event has had exactly one reducer transition
\* applied for it.
C9_ExactlyOneTransition ==
    \A f \in feedback_events : applied[f.id] = 1

\* The same for the events of requests that have ended: the zero is not
\* only the interval between the two commits of submit_feedback.
C9_EndedRequestsReduced ==
    \A f \in feedback_events :
       (\A p \in Procs : req[p].pc = "done" \/ req[p].pc = "idle")
       => applied[f.id] = 1

\* The committed row with the primary key of obj.
RowOf(rows, obj) == CHOOSE t \in rows : t.id = obj.id

\* C10: the commit of a feedback event changes the stored row in one step
\* to carry every field value the event changed, and the fields of stored
\* rows change in no other step: a reader of the store never finds some of
\* an event's changes without the others.
C10_NoPartialUpdate ==
    [][ /\ \A p \in Procs :
             (req[p].pc = "update" /\ req'[p].pc = "refresh") =>
                LET before == req'[p].loaded
                    after == req'[p].topic_state
                IN  \A f \in Fields :
                       after[f] /= before[f] =>
                          RowOf(child_topic_state', after)[f] = after[f]
        /\ (\A p \in Procs : ~(req[p].pc = "update" /\ req'[p].pc = "refresh")) =>
              \A t \in child_topic_state : t \in child_topic_state'
      ]_vars

\* A TOO_ADVANCED event on an existing row has been committed while another
\* request was in flight: the row carries the new hint depth, abstraction
\* and mastery.
C10_Witness ==
    \E p \in Procs :
       /\ req[p].pc = "refresh"
       /\ req[p].event_type = "TOO_ADVANCED"
       /\ \E q \in Procs \ {p} : req[q].pc \in {"get_or_create", "update"}
       /\ LET row == RowOf(child_topic_state, req[p].topic_state)
          IN  /\ row.id /= req[p].id
              /\ row.mastery = req[p].topic_state.mastery
              /\ row.mastery /= req[p].loaded.mastery
              /\ row.preferred_hint_depth = "step_by_step"
              /\ req[p].loaded.preferred_hint_depth = "moderate"
              /\ row.preferred_abstraction = "more_concrete"

(***************************************************************************)
(* Properties of get_or_create_topic_state.                                *)
(***************************************************************************)
\* C11: the store never holds two topic-state rows with the same topic key
\* (one learner owns every row), also when two requests run
\* get_or_create_topic_state for a missing row at the same time (Spec).
C11_OneTopicStatePerTopic ==
    \A t1, t2 \in child_topic_state : t1.topic_key = t2.topic_key => t1 = t2

\* Two requests both found no row and both tried to create it: one row is
\* stored and the other request ended with IntegrityError.
C11_Witness ==
    /\ \E p \in Procs : req[p].pc = "done" /\ req[p].error = "IntegrityError"
    /\ Cardinality({t \in child_topic_state : t.topic_key = ReducerTopic}) = 1

\* The documented defaults of a new topic state.
HasDefaults(t) ==
    /\ t.mastery = 50
    /\ t.confidence = 50
    /\ t.preferred_abstraction = "balanced"
    /\ t.preferred_hint_depth = "moderate"

\* C12: get_or_create_topic_state with no stored row for the topic makes a
\* new object with the defaults; with a stored row it returns that row,
\* field for field, and inserts nothing; neither step changes the store
\* (SpecSeq).
C12_GetOrCreateIdempotent ==
    [][\A p \in Procs :
          LET existing == {t \in child_topic_state :
                             t.topic_key = req[p].topic_key}
          IN  /\ (req[p].pc = "get_or_create" /\ req'[p] /= req[p]) =>
                    /\ child_topic_state' = child_topic_state
                    /\ existing /= {} =>
                          /\ req'[p].pc \in {"update", "respond"}
                          /\ req'[p].topic_state \in existing
                          /\ ~req'[p].pending_insert
                    /\ existing = {} =>
                          /\ req'[p].pc = "flush"
                          /\ HasDefaults(req'[p].topic_state)
                          /\ req'[p].topic_state.topic_key = req[p].topic_key
              /\ (req[p].pc = "flush" /\ req'[p].pending_insert) =>
                    /\ child_topic_state' = child_topic_state
                    /\ existing = {}
                    /\ HasDefaults(req'[p].topic_state)
      ]_vars

\* A second analysis of a topic got back the stored row, whose fields a
\* feedback event had moved, and inserts nothing.
C12_Witness ==
    \E p \in Procs :
       /\ req[p].kind = "analyze" /\ req[p].pc = "respond"
       /\ ~req[p].pending_insert
       /\ req[p].topic_state \in child_topic_state
       /\ req[p].topic_state.mastery = 51
       /\ req[p].topic_state.preferred_hint_depth = "light_hints"

Before == req[1].loaded
After == req[1].topic_state

\* v bounded to 0..100.
Bounded(v) == IF v < 0 THEN 0 ELSE IF v > 100 THEN 100 ELSE v

\* C14: TOO_ADVANCED sets mastery to clamp(m*0.8 + (m - 0.05)*0.2), keeps
\* confidence, moves abstraction one rung toward more_concrete and hint
\* depth one rung toward step_by_step, each staying at its last rung; from
\* the defaults the result is 0.49, 0.5, more_concrete, step_by_step.
C14_TooAdvanced ==
    (ReducerApplied /\ req[1].event_type = "TOO_ADVANCED") =>
       LET m == Before.mastery
           a0 == AbstractionRung[Before.preferred_abstraction]
           h0 == HintRung[Before.preferred_hint_depth]
       IN  /\ After.mastery = Bounded((m * 80 + (m - 5) * 20) \div 100)
           /\ After.confidence = Before.confidence
           /\ AbstractionRung[After.preferred_abstraction] =
                 (IF a0 = 1 THEN 1 ELSE a0 - 1)
           /\ HintRung[After.preferred_hint_depth] =
                 (IF h0 = 3 THEN 3 ELSE h0 + 1)
           /\ HasDefaults(Before) =>
                 /\ After.mastery = 49 /\ After.confidence = 50
                 /\ After.preferred_abstraction = "more_concrete"
                 /\ After.preferred_hint_depth = "step_by_step"

\* TOO_ADVANCED was applied to the defaults.
C14_Witness ==
    /\ ReducerApplied /\ req[1].event_type = "TOO_ADVANCED"
    /\ HasDefaults(Before)
    /\ After.mastery = 49
    /\ After.preferred_hint_depth = "step_by_step"
    /\ After \in child_topic_state

\* C15: TOO_SIMPLE sets mastery to clamp(m*0.8 + (m + 0.05)*0.2), keeps
\* confidence, moves abstraction one rung toward more_abstract and hint
\* depth one rung toward light_hints, each staying at its last rung.
C15_TooSimple ==
    (ReducerApplied /\ req[1].event_type = "TOO_SIMPLE") =>
       LET m == Before.mastery
           a0 == AbstractionRung[Before.preferred_abstraction]
           h0 == HintRung[Before.preferred_hint_depth]
       IN  /\ After.mastery = Bounded((m * 80 + (m + 5) * 20) \div 100)
           /\ After.confidence = Before.confidence
           /\ AbstractionRung[After.preferred_abstraction] =
                 (IF a0 = 3 THEN 3 ELSE a0 + 1)
           /\ HintRung[After.preferred_hint_depth] =
                 (IF h0 = 1 THEN 1 ELSE h0 - 1)

\* TOO_SIMPLE was applied with abstraction already at more_abstract and
\* hint depth one rung above light_hints.
C15_Witness ==
    /\ ReducerApplied /\ req[1].event_type = "TOO_SIMPLE"
    /\ Before.preferred_abstraction = "more_abstract"
    /\ After.preferred_abstraction = "more_abstract"
    /\ Before.preferred_hint_depth = "moderate"
    /\ After.preferred_hint_depth = "light_hints"
    /\ After.mastery = Before.mastery + 1

\* C16: UNDERSTOOD sets mastery to clamp(m*0.8 + 1.0*0.2), to the nearest
\* hundredth, and confidence to clamp(c + 0.1), and keeps both preferences.
C16_Understood ==
    (ReducerApplied /\ req[1].event_type = "UNDERSTOOD") =>
       LET exact == Before.mastery * 80 + 100 * 20
       IN  /\ 2 * (100 * After.mastery - exact) <= 100
           /\ 2 * (exact - 100 * After.mastery) <= 100
           /\ After.mastery <= 100
           /\ After.confidence = Bounded(Before.confidence + 10)
           /\ After.preferred_abstraction = Before.preferred_abstraction
           /\ After.preferred_hint_depth = Before.preferred_hint_depth

\* UNDERSTOOD was applied to the defaults: mastery 0.6, confidence 0.6.
C16_Witness ==
    /\ ReducerApplied /\ req[1].event_type = "UNDERSTOOD"
    /\ HasDefaults(Before)
    /\ After.mastery = 60 /\ After.confidence = 60

\* C17: STILL_CONFUSED sets confidence to clamp(c - 0.1), keeps mastery and
\* abstraction, and moves hint depth one rung toward step_by_step exactly
\* when the new confidence is below 0.3: from confidence 0.4 (new
\* confidence exactly 0.3) it does not move, from 0.3 it does.
C17_StillConfused ==
    (ReducerApplied /\ req[1].event_type = "STILL_CONFUSED") =>
       LET h0 == HintRung[Before.preferred_hint_depth]
           h1 == HintRung[After.preferred_hint_depth]
       IN  /\ After.confidence = Bounded(Before.confidence - 10)
           /\ After.mastery = Before.mastery
           /\ After.preferred_abstraction = Before.preferred_abstraction
           /\ After.confidence < 30 => h1 = (IF h0 = 3 THEN 3 ELSE h0 + 1)
           /\ After.confidence >= 30 => h1 = h0
           /\ Before.confidence = 50 => After.confidence = 40 /\ h1 = h0
           /\ Before.confidence = 40 => After.confidence = 30 /\ h1 = h0
           /\ (Before.confidence = 30 /\ h0 = 2) =>
                 After.confidence = 20 /\ h1 = 3

\* The second of the three events: confidence 0.4 became exactly 0.3 and
\* the hint depth stayed at moderate.
C17_Witness ==
    /\ ReducerApplied /\ req[1].event_type = "STILL_CONFUSED"
    /\ Before.confidence = 40 /\ After.confidence = 30
    /\ Before.preferred_hint_depth = "moderate"
    /\ After.preferred_hint_depth = "moderate"
    /\ Before.mastery = 50

\* C18: JUST_RIGHT sets confidence to clamp(c + 0.1) and changes no other
\* field.
C18_JustRight ==
    (ReducerApplied /\ req[1].event_type = "JUST_RIGHT") =>
       /\ After.confidence = Bounded(Before.confidence + 10)
       /\ After = [Before EXCEPT !.confidence = After.confidence]

\* JUST_RIGHT was applied at confidence 1.0, where the clamp keeps it.
C18_Witness ==
    /\ ReducerApplied /\ req[1].event_type = "JUST_RIGHT"
    /\ Before.confidence = 100 /\ After.confidence = 100
    /\ After \in child_topic_state

(***************************************************************************)
(* Failures that are not repaired (SpecSeq).                               *)
(***************************************************************************)
\* C19: no upstream call gives the orchestrator an empty text; when the
\* analyze_image call fails on an empty backend response, the analysis ends
\* with that failure after this one call, without a repair call.
C19_EmptyResponseNotRepaired ==
    \A p \in Procs :
       LET calls == req[p].calls
       IN  /\ \A i \in 1..Len(calls) : calls[i].reply.text /= EmptyText
           /\ (Len(calls) >= 1 /\ calls[1].reply.raised = "EmptyResponse") =>
                 /\ Len(calls) = 1
                 /\ req[p].pc = "done"
                 /\ req[p].status = 500
                 /\ req[p].error = "EmptyResponse"
                 /\ req[p].analysis = NoAnalysis

\* An analysis ended on the empty response of its only upstream call, and
\* its saved image was removed.
C19_Witness ==
    \E p \in Procs :
       /\ req[p].pc = "done" /\ req[p].error = "EmptyResponse"
       /\ Len(req[p].calls) = 1
       /\ req[p].calls[1].op = "analyze_image"
       /\ req[p].calls[1].reply = adapter_return(EmptyText)
       /\ uploads = {}

\* C20: a request whose model id is not in MODEL_REGISTRY ends with the
\* registry's Unknown model error in the step that resolves the model: no
\* upstream call is issued, no provider instance is constructed and nothing
\* is stored; an analyze_image call is only ever issued for a registered id.
C20_UnknownModelNoCall ==
    [][\A p \in Procs :
          /\ (req'[p] /= req[p] /\ req'[p].error = "ValueError: Unknown model") =>
                /\ req'[p].pc = "done" /\ req'[p].status = 500
                /\ req'[p].calls = <<>>
                /\ provider_instances' = provider_instances
                /\ UNCHANGED <<dbVars, uploads>>
          /\ (req[p].pc /= "initial_call" /\ req'[p].pc = "initial_call") =>
                req'[p].model_id \in DOMAIN MODEL_REGISTRY
      ]_vars

\* The first request named an unknown model and ended with the error, with
\* no call issued and no provider constructed.
C20_Witness ==
    \E p \in Procs :
       /\ req[p].pc = "done" /\ req[p].error = "ValueError: Unknown model"
       /\ req[p].calls = <<>>
       /\ \A t \in ProviderTypes : provider_instances[t] = 0
       /\ nreq = 1

(***************************************************************************)
(* How analyze_homework reports the failures of the orchestrator           *)
(* (SpecSeq).                                                              *)
(***************************************************************************)
\* C21: an analysis that failed on an unknown model id is answered with a
\* client-error status (4xx), one that failed on a provider call or on
\* output that could not be parsed with a server-error status (5xx).
C21_FailureKindsDistinguished ==
    \A p \in Procs :
       (req[p].kind = "analyze" /\ req[p].pc = "done") =>
          /\ req[p].error = "ValueError: Unknown model" =>
                (400 <= req[p].status /\ req[p].status <= 499)
          /\ req[p].error \in {"APIError", "EmptyResponse", "JSONDecodeError",
                               "ValidationError", "TypeError"} =>
                req[p].status >= 500

\* C22: the step in which an analysis is cancelled during an upstream call
\* leaves nothing of the request behind: no question, no topic state and no
\* saved image (SpecCancel).
C22_CancelLeavesNothing ==
    [][\A p \in Procs :
          (req[p].pc \in {"initial_call", "repair_call"}
           /\ req'[p].error = "CancelledError") =>
             /\ req[p].id \notin uploads'
             /\ \A q \in questions' : q.id /= req[p].id
             /\ \A t \in child_topic_state' : t.id /= req[p].id
      ]_vars

(***************************************************************************)
(* Properties of _extract_json (SpecExtract).                              *)
(***************************************************************************)
Extracted == direct_call.fn = "_extract_json"
ExtractedFrom == direct_call.args[1]

Positions(s, c) == {i \in 1..Len(s) : s[i] = c}

\* The brace spans of a text: from a "{" to the next "}", no brace between.
BraceSpans(s) ==
    {sp \in Positions(s, "{") \X Positions(s, "}") :
        /\ sp[1] < sp[2]
        /\ \A k \in (sp[1] + 1)..(sp[2] - 1) : s[k] \notin {"{", "}"}}

SpanLen(sp) == sp[2] - sp[1] + 1

\* C23: on a text without fence that holds two separate brace spans of
\* different lengths, with other text between them and no further brace,
\* _extract_json returns the longer span.
C23_LongestBraceSpan ==
    Extracted =>
       LET s == ExtractedFrom
           spans == BraceSpans(s)
       IN  (/\ Positions(s, "fence") = {}
            /\ Cardinality(spans) = 2
            /\ Cardinality(Positions(s, "{")) = 2
            /\ Cardinality(Positions(s, "}")) = 2
            /\ \E a, b \in spans :
                  a[2] + 1 < b[1] /\ SpanLen(a) /= SpanLen(b))
           => \E sp \in spans :
                 /\ \A other \in spans : SpanLen(other) <= SpanLen(sp)
                 /\ direct_result = SubSeq(s, sp[1], sp[2])

\* The content of the first fenced block of a text that has two fences:
\* what stands between them, without the "json" tag and the whitespace
\* around it.
FirstFencedContent(s) ==
    LET opening == SetMin(Positions(s, "fence"))
        closing == SetMin(Positions(s, "fence") \ {opening})
        from == IF s[opening + 1] = "json" THEN opening + 2 ELSE opening + 1
    IN  strip(SubSeq(s, from, closing - 1))

\* C24: with a fenced block in the text, _extract_json returns the content
\* of the first fenced block, whatever else the text holds; without one and
\* with a "{" before a "}", a part of the text from a "{" to a "}"; with
\* neither, the text without the whitespace around it.
C24_ExtractionPrecedence ==
    Extracted =>
       LET s == ExtractedFrom
           fenced == Cardinality(Positions(s, "fence")) >= 2
           braced == \E a \in Positions(s, "{"), b \in Positions(s, "}") : a < b
       IN  /\ fenced => direct_result = FirstFencedContent(s)
           /\ (~fenced /\ braced) =>
                 \E a \in Positions(s, "{"), b \in Positions(s, "}") :
                    a < b /\ direct_result = SubSeq(s, a, b)
           /\ (~fenced /\ ~braced) => direct_result = strip(s)

\* The text had a brace span before its fenced block, and the content of
\* the fenced block was returned.
C24_Witness ==
    /\ Extracted
    /\ ExtractedFrom = <<"{", "}", "fence", "x", "fence">>
    /\ direct_result = <<"x">>

(***************************************************************************)
(* Properties of the provider registry (SpecRegistry).                     *)
(***************************************************************************)
\* C25: a provider type is constructed at most once, in the first
\* get_provider call for a model of that type, and every later call finds
\* that instance: the construction count of a type goes from 0 to 1 and
\* then never changes.
C25_ProviderConstructedOnce ==
    [][\A t \in ProviderTypes :
          \/ provider_instances'[t] = provider_instances[t]
          \/ /\ provider_instances[t] = 0
             /\ provider_instances'[t] = 1
             /\ \E p \in Procs :
                   /\ req'[p].pc = "initial_call" /\ req[p].pc /= "initial_call"
                   /\ req'[p].calls[1].provider = t
      ]_vars

\* Two analyses await the same provider type at the same time, and the type
\* has been constructed once.
C25_Witness ==
    \E p, q \in Procs :
       /\ p /= q
       /\ req[p].pc = "initial_call" /\ req[q].pc = "initial_call"
       /\ req[p].calls[1].provider = req[q].calls[1].provider
       /\ provider_instances[req[p].calls[1].provider] = 1

(***************************************************************************)
(* Properties of compile_policy (SpecPolicy).                              *)
(***************************************************************************)
Compiled == direct_call.fn = "compile_policy"

\* C26: the prompt carries the extra-patient sentence exactly when mastery
\* is below 0.3, the faster-paced sentence exactly when it is above 0.7 and
\* no sentence otherwise, 0.3 and 0.7 included; without a topic state it is
\* compiled as for mastery 0.5, balanced, moderate.
C26_MasteryTone ==
    Compiled =>
       LET t == direct_call.args[2]
           m == IF t = NoRow THEN 50 ELSE t.mastery
       IN  /\ direct_result.mastery_instruction = "Be extra patient" <=> m < 30
           /\ direct_result.mastery_instruction = "You can move more quickly" <=> m > 70
           /\ (m >= 30 /\ m <= 70) => direct_result.mastery_instruction = ""
           /\ t = NoRow =>
                 /\ direct_result.abstraction_instruction =
                       get_abstraction_instruction("balanced")
                 /\ direct_result.explanation_instruction =
                       get_explanation_depth_instruction("moderate")

\* compile_policy was called at mastery exactly 0.3 and added no sentence.
C26_Witness ==
    /\ Compiled
    /\ direct_call.args[2] /= NoRow
    /\ direct_call.args[2].mastery = 30
    /\ direct_result.mastery_instruction = ""

\* The mastery band of a topic state, or of none.
MasteryBand(t) ==
    LET m == IF t = NoRow THEN 50 ELSE t.mastery
    IN  IF m < 30 THEN "low" ELSE IF m > 70 THEN "high" ELSE "middle"

\* C30: the prompt compiled for inputs that differ from the ones of the
\* call only in confidence, session_hint_stage, default_explanation_style,
\* no_direct_answer, or in mastery within its band, is the same prompt.
C30_PromptIgnoresOtherFields ==
    Compiled =>
       LET g == direct_call.args[1]
           t == direct_call.args[2]
       IN  \A style \in {"balanced", "more_concrete"}, nda \in BOOLEAN,
              confidence \in {0, 100}, st2 \in SessionHintStages,
              mastery \in {0, 29, 30, 31, 50, 69, 70, 71, 100} :
              LET g2 == [g EXCEPT !.default_explanation_style = style,
                                  !.no_direct_answer = nda]
                  t2 == IF t = NoRow THEN NoRow
                        ELSE [t EXCEPT !.confidence = confidence,
                                       !.mastery = mastery]
              IN  MasteryBand(t2) = MasteryBand(t)
                  => compile_policy(g2, t2, st2) = direct_result

\* compile_policy was called without a topic state for a learner whose
\* default explanation style is not balanced and whose no_direct_answer is
\* off, at hint stage 3.
C30_Witness ==
    /\ Compiled
    /\ direct_call.args[2] = NoRow
    /\ direct_call.args[1].default_explanation_style = "more_concrete"
    /\ ~direct_call.args[1].no_direct_answer
    /\ direct_call.args[3] = 3
    /\ direct_result.abstraction_instruction = get_abstraction_instruction("balanced")

(***************************************************************************)
(* What a failed analysis leaves behind (SpecSeq).                         *)
(***************************************************************************)
\* C27: the step in which analyze_homework ends because the orchestrator
\* raised (unknown model, provider failure, empty response, output that no
\* call made parsable) changes no stored question, topic state or feedback
\* event and leaves no image file of the request; every image file belongs
\* to a stored question or to an analysis in flight.
C27_FailedAnalysisLeavesNoTrace ==
    [][\A p \in Procs :
          (/\ req'[p] /= req[p]
           /\ req'[p].kind = "analyze" /\ req'[p].pc = "done"
           /\ req'[p].status = 500 /\ req'[p].analysis = NoAnalysis) =>
             /\ UNCHANGED dbVars
             /\ (IF req[p].pc \in {"initial_call", "repair_call"}
                 THEN req[p].id ELSE nreq') \notin uploads'
             /\ uploads' \subseteq
                   {q.id : q \in questions'} \cup
                   {req'[q].id : q \in {r \in Procs : req'[r].kind = "analyze"}}
      ]_vars

\* The only request so far failed after its repair call: no question, no
\* topic state and no image file are left.
C27_Witness ==
    \E p \in Procs :
       /\ req[p].kind = "analyze" /\ req[p].pc = "done" /\ req[p].status = 500
       /\ Len(req[p].calls) = 2
       /\ nreq = 1
       /\ uploads = {} /\ questions = {} /\ child_topic_state = {}

(***************************************************************************)
(* Properties of a run of STILL_CONFUSED events (SpecConfused).            *)
(***************************************************************************)
\* C28: in a run of STILL_CONFUSED events from any topic state, the hint
\* depth is step_by_step after 9 events at the latest and, once there,
\* stays there; mastery and abstraction keep the values the run started
\* with.
C28_ConfusionEscalates ==
    /\ [](\A t \in child_topic_state :
             /\ confused_run.length >= 9 => t.preferred_hint_depth = "step_by_step"
             /\ t.mastery = confused_run.start.mastery
             /\ t.preferred_abstraction = confused_run.start.preferred_abstraction)
    /\ [][\A t \in child_topic_state, t1 \in child_topic_state' :
             t.preferred_hint_depth = "step_by_step"
             => t1.preferred_hint_depth = "step_by_step"]_vars

\* The longest climb: from confidence 1.0 and light_hints the ninth event
\* brought the hint depth to step_by_step.
C28_Witness ==
    /\ confused_run.length = 9
    /\ confused_run.start.confidence = 100
    /\ confused_run.start.preferred_hint_depth = "light_hints"
    /\ \E t \in child_topic_state :
          t.preferred_hint_depth = "step_by_step" /\ t.confidence = 10

(***************************************************************************)
(* The repair call (SpecSeq).                                              *)
(***************************************************************************)
\* C29: the repair call goes to the provider type and backend model of the
\* first call, with the same system prompt, and its messages are the user
\* prompt, the whole first response as the assistant turn, and a user turn
\* made of the parse error of the first response and the first 500
\* characters of that response.
C29_RepairCallShape ==
    \A p \in Procs :
       LET calls == req[p].calls
       IN  Len(calls) >= 2 =>
              LET first == calls[1].reply.text
              IN  /\ calls[2].op = "chat"
                  /\ calls[2].provider = calls[1].provider
                  /\ calls[2].model = calls[1].model
                  /\ calls[2].system_prompt = calls[1].system_prompt
                  /\ calls[2].messages =
                        <<[role |-> "user", content |-> "analysis_prompt"],
                          [role |-> "assistant", content |-> first],
                          [role |-> "user",
                           content |-> [error |-> ParseErrorOf(first.kind),
                                        previous |-> [first |-> 500,
                                                      of |-> first]]]>>

\* A repair call is in flight for a first response that was a JSON object
\* failing the schema, on the Responses provider chosen by the user's
\* preferred model.
C29_Witness ==
    \E p \in Procs :
       /\ req[p].pc = "repair_call"
       /\ Len(req[p].calls) = 2
       /\ req[p].calls[1].reply.text.kind = "schema_invalid"
       /\ req[p].calls[2].provider = "openai_responses"
       /\ req[p].calls[2].model = "gpt-5-mini"

====
